---- MODULE Spec2Model ----
(***************************************************************************)
(* The dashboards of streamlit-dashboard as a state machine.               *)
(*                                                                         *)
(* A Streamlit script is re-executed top to bottom on every widget change. *)
(* The state that survives between two executions is the cached load (the  *)
(* tables), the values of the widgets, and what the last execution put on  *)
(* the page.  One action of the model is one user interaction together     *)
(* with the whole execution it triggers.                                   *)
(*                                                                         *)
(*   app.py       practice-area multiselect, month range slider,           *)
(*                last-month summary, two charts                           *)
(*   yamileth.py  FTE and metric multiselects, "Select All" checkbox,      *)
(*                year-month range slider, one chart, raw data             *)
(*                                                                         *)
(* A table is a sequence of rows; a row is a record that carries the       *)
(* DataFrame index label (idx) next to its columns.  None is the empty     *)
(* tuple and a present value v is <<v>>.                                   *)
(***************************************************************************)
EXTENDS Integers, Sequences, FiniteSets, TLC

\* ------------------------------------------------------------------ bounds
\* rows of pa_data.xlsx / fte_data.xlsx
MaxRows == 2
\* rows of GRO_data.xlsx
MaxOverallRows == 2

\* ------------------------------------------------------------ data universe
\* the Month_# / Month pair of the spreadsheets
MonthNames ==
    <<"Jan", "Feb", "Mar", "Apr", "May", "Jun",
      "Jul", "Aug", "Sep", "Oct", "Nov", "Dec">>

\* Month_# values of the rows of pa_data.xlsx
PaMonths == {1, 2, 3}
\* "Practice area" values of pa_data.xlsx
PracticeAreaValues == {"Tax", "Audit"}
\* (Year, Month_#) values of the rows of fte_data.xlsx
FteYearMonths == {<<2023, 11>>, <<2023, 12>>, <<2024, 1>>}
\* Month_# values of the rows of GRO_data.xlsx
OverallMonths == {12}
\* what datetime.datetime.now().month returns during an execution
ClockMonths == {1, 2}

fte == "Gonzalez Yamileth"
FteOptions == {fte, "GRO"}
MetricOptions == {"Utilization", "Billability"}
SummaryMetrics == {"Utilization", "Billability", "Engagement"}

None == <<>>
Some(v) == <<v>>

\* ------------------------------------------------------------- pandas steps
\* DataFrame.drop_duplicates(): the first occurrence of every row is kept
RECURSIVE drop_duplicates(_)
drop_duplicates(s) ==
    IF s = <<>> THEN <<>>
    ELSE LET rest == drop_duplicates(SubSeq(s, 1, Len(s) - 1))
             last == s[Len(s)]
         IN  IF \E i \in 1..Len(rest) : rest[i] = last
             THEN rest
             ELSE Append(rest, last)

\* lexicographic <= on the first n columns of two tuples
RECURSIVE ColsLeq(_, _, _, _)
ColsLeq(a, b, i, n) ==
    IF i > n THEN TRUE
    ELSE IF a[i] < b[i] THEN TRUE
    ELSE IF a[i] > b[i] THEN FALSE
    ELSE ColsLeq(a, b, i + 1, n)

RECURSIVE InsertSorted(_, _, _)
InsertSorted(s, x, n) ==
    IF s = <<>> THEN <<x>>
    ELSE IF ColsLeq(s[Len(s)], x, 1, n) THEN Append(s, x)
    ELSE Append(InsertSorted(SubSeq(s, 1, Len(s) - 1), x, n), s[Len(s)])

\* DataFrame.sort_values(by the first n columns), ascending
RECURSIVE sort_values(_, _)
sort_values(s, n) ==
    IF s = <<>> THEN <<>>
    ELSE InsertSorted(sort_values(SubSeq(s, 1, Len(s) - 1), n), s[Len(s)], n)

\* a selection that returns the chosen rows last row first
RECURSIVE loc_reversed(_, _)
loc_reversed(df, mask) ==
    IF df = <<>> THEN <<>>
    ELSE LET rest == loc_reversed(SubSeq(df, 2, Len(df)),
                                  [i \in 1..(Len(df) - 1) |-> mask[i + 1]])
         IN  IF mask[1] THEN Append(rest, df[1]) ELSE rest

\* df.loc[mask]: the rows whose mask entry is true, in the order of df
RECURSIVE loc(_, _)
loc(df, mask) ==
    IF df = <<>> THEN <<>>
    ELSE LET head == loc(SubSeq(df, 1, Len(df) - 1), SubSeq(mask, 1, Len(df) - 1))
         IN  IF mask[Len(df)] THEN Append(head, df[Len(df)]) ELSE head

\* a comparison that looks at the month number only
TupleLeq_month_only(a, b) == a[2] <= b[2]

\* Python's <= on two (Year, Month_#) tuples
TupleLeq(a, b) == a[1] < b[1] \/ (a[1] = b[1] /\ a[2] <= b[2])

\* dict(zip(keys, values)): a later pair replaces an earlier one with its key
dict_zip(keys, values) ==
    [k \in {keys[i] : i \in 1..Len(keys)} |->
        values[CHOOSE i \in 1..Len(keys) :
                  /\ keys[i] = k
                  /\ \A j \in 1..Len(keys) : keys[j] = k => j <= i]]

\* --------------------------------------------------------- streamlit widgets
\* The state of the range slider between two executions: the options it was
\* built with and the (start, end) it holds.  A slider that the last execution
\* did not build has no state.
NoSlider == [options |-> <<>>, value |-> <<>>]

\* st.sidebar.select_slider(label, options=options, value=default): the value
\* the widget holds when it is the widget of the last execution (same options),
\* the default when it is built anew.
select_slider(options, default, widget) ==
    IF widget.options = options /\ widget.value # <<>>
    THEN widget.value
    ELSE default

\* ------------------------------------------------------------------ app.py
\* What a call of a range filter leaves behind: the returned tuple (None for
\* the whole tuple when the call raised), the exception that ended the call,
\* the sidebar warning, the ordered options and the slider the call built.
NoRange(options, widget, exception, table) ==
    [raised |-> exception, warning |-> (options = <<>>),
     options |-> options, slider |-> widget,
     start_year |-> None, start_month_name |-> None, start_month_num |-> None,
     end_year |-> None, end_month_name |-> None, end_month_num |-> None,
     filtered_df |-> table]

\* app.py: df[[Month_#, Month]].drop_duplicates().sort_values(Month_#)
months_df_of(df) ==
    sort_values(
        drop_duplicates([i \in 1..Len(df) |-> <<df[i].Month_num, df[i].Month>>]),
        1)

\* a column of a table of tuples, as a list
column(t, c) == [i \in 1..Len(t) |-> t[i][c]]

\* app.py: the mask on Month_# and df.loc[mask]
month_mask(df, start_month_num, end_month_num) ==
    [i \in 1..Len(df) |->
        /\ df[i].Month_num >= start_month_num
        /\ df[i].Month_num <= end_month_num]

\* app.py, month_range_filter from the name_to_num lookups on
month_range_lookup(df, month_names, month_numbers, name_to_num, picked) ==
    IF picked[1] \notin DOMAIN name_to_num \/ picked[2] \notin DOMAIN name_to_num
    THEN NoRange([i \in 1..Len(month_numbers) |-> <<month_numbers[i]>>],
                 [options |-> month_names, value |-> picked], "KeyError", <<>>)
    ELSE [raised |-> "", warning |-> FALSE,
          options |-> [i \in 1..Len(month_numbers) |-> <<month_numbers[i]>>],
          slider |-> [options |-> month_names, value |-> picked],
          start_year |-> None,
          start_month_name |-> Some(picked[1]),
          start_month_num |-> Some(name_to_num[picked[1]]),
          end_year |-> None,
          end_month_name |-> Some(picked[2]),
          end_month_num |-> Some(name_to_num[picked[2]]),
          filtered_df |-> loc(df, month_mask(df, name_to_num[picked[1]],
                                             name_to_num[picked[2]]))]

\* app.py, month_range_filter from the select_slider call on
month_range_slider(df, month_names, month_numbers, widget) ==
    month_range_lookup(
        df, month_names, month_numbers,
        dict_zip(month_names, month_numbers),
        select_slider(month_names,
                      <<month_names[1], month_names[Len(month_names)]>>,
                      widget))

\* app.py, month_range_filter from the emptiness test on
month_range_options(df, months_df, widget) ==
    IF months_df = <<>>
    THEN NoRange(<<>>, NoSlider, "", df)
    ELSE month_range_slider(df, column(months_df, 2), column(months_df, 1), widget)

\* app.py, month_range_filter
month_range_filter(df, widget) ==
    month_range_options(df, months_df_of(df), widget)

\* ------------------------------------------------------------- yamileth.py
\* yamileth.py: df[[Year, Month_#, Month]].drop_duplicates()
\*                  .sort_values([Year, Month_#])
ym_df_of(df) ==
    sort_values(
        drop_duplicates(
            [i \in 1..Len(df) |-> <<df[i].Year, df[i].Month_num, df[i].Month>>]),
        2)

\* yamileth.py: options = list(zip(ym_df[Year], ym_df[Month_#]))
options_of(ym_df) == [i \in 1..Len(ym_df) |-> <<ym_df[i][1], ym_df[i][2]>>]

\* a mask that leaves the end month out
ym_mask_end_excluded(df, start_ym, end_ym) ==
    [i \in 1..Len(df) |->
        /\ TupleLeq(start_ym, <<df[i].Year, df[i].Month_num>>)
        /\ TupleLeq(<<df[i].Year, df[i].Month_num>>, end_ym)
        /\ <<df[i].Year, df[i].Month_num>> # end_ym]

\* yamileth.py: mask = [(start_ym <= ym <= end_ym) for ym in ym_series]
ym_mask(df, start_ym, end_ym) ==
    [i \in 1..Len(df) |->
        /\ TupleLeq(start_ym, <<df[i].Year, df[i].Month_num>>)
        /\ TupleLeq(<<df[i].Year, df[i].Month_num>>, end_ym)]

\* yamileth.py: the tuple the function returns for the range (start_ym, end_ym)
ym_result(options, widget, ym_to_name, start_ym, end_ym, table) ==
    [raised |-> "", warning |-> FALSE,
     options |-> options, slider |-> widget,
     start_year |-> Some(start_ym[1]),
     start_month_name |-> Some(ym_to_name[start_ym]),
     start_month_num |-> Some(start_ym[2]),
     end_year |-> Some(end_ym[1]),
     end_month_name |-> Some(ym_to_name[end_ym]),
     end_month_num |-> Some(end_ym[2]),
     filtered_df |-> table]

\* yamileth.py, year_month_range_filter from the ym_to_name lookups on
ym_range_lookup(df, options, ym_to_name, picked) ==
    IF picked[1] \notin DOMAIN ym_to_name \/ picked[2] \notin DOMAIN ym_to_name
    THEN NoRange(options, [options |-> options, value |-> picked], "KeyError", <<>>)
    ELSE ym_result(options, [options |-> options, value |-> picked], ym_to_name,
                   picked[1], picked[2],
                   loc(df, ym_mask(df, picked[1], picked[2])))

\* a Select All branch that still reads the range from the slider
select_all_result_from_slider(df, options, ym_to_name, widget) ==
    ym_range_lookup(
        df, options, ym_to_name,
        select_slider(options, <<options[1], options[Len(options)]>>, widget))

\* yamileth.py: "If Select All is checked, skip filtering and return full df"
select_all_result(df, options, ym_to_name, widget) ==
    ym_result(options, NoSlider, ym_to_name, options[1], options[Len(options)], df)

\* yamileth.py, year_month_range_filter from the Select All test on
ym_range_slider(df, select_all_value, options, ym_to_name, widget) ==
    IF select_all_value
    THEN select_all_result(df, options, ym_to_name, widget)
    ELSE ym_range_lookup(
             df, options, ym_to_name,
             select_slider(options, <<options[1], options[Len(options)]>>, widget))

\* yamileth.py, year_month_range_filter from the emptiness test on
ym_range_options(df, select_all_value, ym_df, widget) ==
    IF ym_df = <<>>
    THEN NoRange(<<>>, NoSlider, "", df)
    ELSE ym_range_slider(df, select_all_value, options_of(ym_df),
                         dict_zip(options_of(ym_df), column(ym_df, 3)), widget)

\* yamileth.py, year_month_range_filter, select_all_value being the value of
\* the "Select All" checkbox
year_month_range_filter(df, select_all_value, widget) ==
    ym_range_options(df, select_all_value, ym_df_of(df), widget)

\* ------------------------------------------------- app.py, the script body
\* app.py: pa_plot[pa_plot["Practice area"].isin(practice_areas)]
pa_filter(pa_plot, selected) ==
    SelectSeq(pa_plot, LAMBDA r : r.Practice_area \in selected)

\* app.py: 12 if current_month_num == 1 else current_month_num - 1
last_month_of(current_month_num) ==
    IF current_month_num = 1 THEN 12 ELSE current_month_num - 1

\* app.py: overall_plot.loc[Month_# == last_month_num, 'Month'].iloc[0];
\* None stands for the IndexError of .iloc[0] on an empty selection
last_month_name_of(overall, last_month_num) ==
    LET hit == SelectSeq(overall, LAMBDA r : r.Month_num = last_month_num)
    IN  IF hit = <<>> THEN None ELSE Some(hit[1].Month)

\* app.py, get_metric_value: the Value cell of the first row of the metric in
\* the last month (the cell is named by the row's index label); None stands
\* for the IndexError of .iloc[0] on an empty selection
get_metric_value(overall, last_month_num, metric_name) ==
    LET hit == SelectSeq(overall, LAMBDA r : /\ r.Month_num = last_month_num
                                             /\ r.Metric = metric_name)
    IN  IF hit = <<>> THEN None ELSE Some(hit[1].idx)

\* the three st.metric calls, in the order of the script
SummaryOrder == <<"Utilization", "Billability", "Engagement">>

\* the figures st.metric draws before the first get_metric_value that raises
RECURSIVE metrics_drawn(_, _, _)
metrics_drawn(overall, last_month_num, i) ==
    IF i > Len(SummaryOrder) THEN <<>>
    ELSE IF get_metric_value(overall, last_month_num, SummaryOrder[i]) = None THEN <<>>
    ELSE <<SummaryOrder[i]>> \o metrics_drawn(overall, last_month_num, i + 1)

\* app.py, section 5: what it draws and the exception that ends it, if any
summary_of(last_month_num, last_month_name, drawn) ==
    IF last_month_name = None
    THEN [raised |-> "IndexError", rendered |-> <<>>, last_month_num |-> last_month_num]
    ELSE IF Len(drawn) < Len(SummaryOrder)
    THEN [raised |-> "IndexError", rendered |-> drawn, last_month_num |-> last_month_num]
    ELSE [raised |-> "", rendered |-> drawn, last_month_num |-> last_month_num]

summary(overall, current_month_num) ==
    summary_of(last_month_of(current_month_num),
               last_month_name_of(overall, last_month_of(current_month_num)),
               metrics_drawn(overall, last_month_of(current_month_num), 1))

\* app.py, sections 6 and 7
app_charts(pa_plot_filtered) ==
    IF pa_plot_filtered = <<>>
    THEN <<"warning", "warning">>
    ELSE <<"line_chart", "area_chart">>

\* a caller that writes the line without looking at start_name
range_line_unguarded(start) == <<"range">>

\* app.py: if start_name is not None: st.write("Showing data from ... to ...")
range_line(start) == IF start # None THEN <<"range">> ELSE <<>>

\* One execution of app.py: the table handed to the filter, the filter's
\* result, what the page shows, and the exception that ended the execution.
app_page(pa_plot2, f, s) ==
    IF f.raised # ""
    THEN [df |-> pa_plot2, out |-> f, raised |-> f.raised, rendered |-> <<>>,
          last_month_num |-> None]
    ELSE IF s.raised # ""
    THEN [df |-> pa_plot2, out |-> f, raised |-> s.raised,
          rendered |-> range_line(f.start_month_name) \o s.rendered,
          last_month_num |-> Some(s.last_month_num)]
    ELSE [df |-> pa_plot2, out |-> f, raised |-> "",
          rendered |-> range_line(f.start_month_name) \o s.rendered
                       \o app_charts(f.filtered_df),
          last_month_num |-> Some(s.last_month_num)]

app_filtered(pa_plot2, overall, widget, current_month_num) ==
    app_page(pa_plot2, month_range_filter(pa_plot2, widget),
             summary(overall, current_month_num))

app_run(pa_plot, overall, selected, widget, current_month_num) ==
    app_filtered(pa_filter(pa_plot, selected), overall, widget, current_month_num)

\* -------------------------------------------- yamileth.py, the script body
\* a script that hands the loaded table to the range filter as it is
fte_metric_filter_skipped(fte_plot, ftes, metric_names) == fte_plot

\* yamileth.py: fte_plot[FTE.isin(fte_filter) & Metric.isin(metric_filter)]
fte_metric_filter(fte_plot, ftes, metric_names) ==
    SelectSeq(fte_plot, LAMBDA r : r.FTE \in ftes /\ r.Metric \in metric_names)

\* yamileth.py: start_year is not None and end_year is not None
ym_range_line(start_year, end_year) ==
    IF start_year # None /\ end_year # None THEN <<"range">> ELSE <<>>

\* yamileth.py, sections 6 and 7
fte_charts(fte_plot_filtered) ==
    IF fte_plot_filtered = <<>>
    THEN <<"warning", "raw_data">>
    ELSE <<"line_chart", "raw_data">>

\* One execution of yamileth.py.
yamileth_page(fte_plot2, f) ==
    IF f.raised # ""
    THEN [df |-> fte_plot2, out |-> f, raised |-> f.raised, rendered |-> <<>>,
          last_month_num |-> None]
    ELSE [df |-> fte_plot2, out |-> f, raised |-> "",
          rendered |-> ym_range_line(f.start_year, f.end_year)
                       \o fte_charts(f.filtered_df),
          last_month_num |-> None]

yamileth_filtered(fte_plot2, select_all_value, widget) ==
    yamileth_page(fte_plot2, year_month_range_filter(fte_plot2, select_all_value, widget))

yamileth_run(fte_plot, ftes, metric_names, select_all_value, widget) ==
    yamileth_filtered(fte_metric_filter(fte_plot, ftes, metric_names),
                      select_all_value, widget)

\* ------------------------------------------------------------------- state
VARIABLES
    script,          \* which dashboard the process runs: "app" or "yamileth"
    loaded,          \* load_data(): pa_plot (app.py) or fte_plot (yamileth.py)
    overall_plot,    \* load_data(): overall (app.py)
    practice_areas,  \* app.py: the "Select PA(s):" multiselect
    fte_filter,      \* yamileth.py: the "Select data to show:" multiselect
    metric_filter,   \* yamileth.py: the "Select metrics to show:" multiselect
    select_all,      \* yamileth.py: the "Select All" checkbox
    slider,          \* the range slider as the last execution left it
    df,              \* the table the last execution handed to the range filter
    out,             \* what the range filter returned in the last execution
    last_month_num,  \* app.py: last_month_num of the last execution
    rendered,        \* what the last execution drew on the page, in order
    raised,          \* the exception that ended the last execution, "" if none
    held             \* history: the slider as it was when "Select All" was
                     \* last ticked (NoSlider while it is not ticked)

vars == <<script, loaded, overall_plot, practice_areas, fte_filter, metric_filter,
          select_all, slider, df, out, last_month_num, rendered, raised, held>>

\* ---------------------------------------------------------- loaded tables
\* read_excel: the rows in file order, indexed 0, 1, 2, ...
PaRows ==
    {[Practice_area |-> a, Month_num |-> m, Month |-> MonthNames[m]] :
        a \in PracticeAreaValues, m \in PaMonths}
FteRows ==
    {[FTE |-> f, Metric |-> x, Year |-> ym[1], Month_num |-> ym[2],
      Month |-> MonthNames[ym[2]]] :
        f \in FteOptions, x \in MetricOptions, ym \in FteYearMonths}
OverallRows ==
    {[Metric |-> x, Month_num |-> m, Month |-> MonthNames[m]] :
        x \in SummaryMetrics, m \in OverallMonths}

\* the RangeIndex of a freshly read table
range_index(t) == [i \in 1..Len(t) |-> [idx |-> i - 1] @@ t[i]]

Tables(Rows, max) ==
    UNION {{range_index(t) : t \in [1..n -> Rows]} : n \in 0..max}

\* the tables of the two range scenarios: Jan, Feb, Mar of one year, and
\* Nov 2023, Dec 2023, Jan 2024 (in a file order that is not chronological)
PaScenario ==
    range_index(<<[Practice_area |-> "Tax", Month_num |-> 1, Month |-> MonthNames[1]],
                  [Practice_area |-> "Audit", Month_num |-> 2, Month |-> MonthNames[2]],
                  [Practice_area |-> "Tax", Month_num |-> 3, Month |-> MonthNames[3]]>>)
\* an overall table with the three summary metrics of December
OverallScenario ==
    range_index(<<[Metric |-> "Utilization", Month_num |-> 12, Month |-> MonthNames[12]],
                  [Metric |-> "Billability", Month_num |-> 12, Month |-> MonthNames[12]],
                  [Metric |-> "Engagement", Month_num |-> 12, Month |-> MonthNames[12]]>>)
FteScenario ==
    range_index(<<[FTE |-> fte, Metric |-> "Utilization", Year |-> 2024,
                   Month_num |-> 1, Month |-> MonthNames[1]],
                  [FTE |-> "GRO", Metric |-> "Utilization", Year |-> 2023,
                   Month_num |-> 11, Month |-> MonthNames[11]],
                  [FTE |-> fte, Metric |-> "Utilization", Year |-> 2023,
                   Month_num |-> 12, Month |-> MonthNames[12]]>>)

\* ------------------------------------------------------- the first execution
\* sorted(pa_plot["Practice area"].unique()): the multiselect's options and
\* its default
pa_options(pa_plot) == {pa_plot[i].Practice_area : i \in 1..Len(pa_plot)}

\* An execution's results become the state the next interaction starts from.
Land(r) ==
    /\ df' = r.df
    /\ out' = r.out
    /\ slider' = r.out.slider
    /\ last_month_num' = r.last_month_num
    /\ rendered' = r.rendered
    /\ raised' = r.raised

FirstRun(r) ==
    /\ df = r.df
    /\ out = r.out
    /\ slider = r.out.slider
    /\ last_month_num = r.last_month_num
    /\ rendered = r.rendered
    /\ raised = r.raised
    /\ held = NoSlider

InitApp ==
    /\ script = "app"
    /\ loaded \in Tables(PaRows, MaxRows) \cup {PaScenario}
    /\ overall_plot \in Tables(OverallRows, MaxOverallRows) \cup {OverallScenario}
    /\ practice_areas = pa_options(loaded)
    /\ fte_filter = {}
    /\ metric_filter = {}
    /\ select_all = FALSE
    /\ \E now \in ClockMonths :
         FirstRun(app_run(loaded, overall_plot, practice_areas, NoSlider, now))

InitYamileth ==
    /\ script = "yamileth"
    /\ loaded \in Tables(FteRows, MaxRows) \cup {FteScenario}
    /\ overall_plot = <<>>
    /\ practice_areas = {}
    /\ fte_filter = FteOptions
    /\ metric_filter = {"Utilization"}
    /\ select_all = FALSE
    /\ FirstRun(yamileth_run(loaded, fte_filter, metric_filter, select_all, NoSlider))

Init == InitApp \/ InitYamileth

\* ---------------------------------------------------------- interactions
\* the positions of the two thumbs of a range slider over n options
Thumbs(n) == {p \in (1..n) \X (1..n) : p[1] <= p[2]}

\* the slider with its thumbs at positions p
Moved(widget, p) ==
    [widget EXCEPT !.value = <<widget.options[p[1]], widget.options[p[2]]>>]

\* app.py: the user changes the practice-area multiselect
SelectPracticeAreas ==
    /\ script = "app"
    /\ \E selected \in SUBSET pa_options(loaded), now \in ClockMonths :
         /\ selected # practice_areas
         /\ practice_areas' = selected
         /\ Land(app_run(loaded, overall_plot, selected, slider, now))
    /\ UNCHANGED <<script, loaded, overall_plot, fte_filter, metric_filter, select_all,
                   held>>

\* app.py: the user moves a thumb of the month slider
MoveMonthSlider ==
    /\ script = "app"
    /\ slider # NoSlider
    /\ \E p \in Thumbs(Len(slider.options)), now \in ClockMonths :
         /\ Moved(slider, p) # slider
         /\ Land(app_run(loaded, overall_plot, practice_areas, Moved(slider, p), now))
    /\ UNCHANGED <<script, loaded, overall_plot, practice_areas, fte_filter,
                   metric_filter, select_all, held>>

\* yamileth.py: the user changes the FTE multiselect
SelectFtes ==
    /\ script = "yamileth"
    /\ \E selected \in SUBSET FteOptions :
         /\ selected # fte_filter
         /\ fte_filter' = selected
         /\ Land(yamileth_run(loaded, selected, metric_filter, select_all, slider))
    /\ held' = NoSlider
    /\ UNCHANGED <<script, loaded, overall_plot, practice_areas, metric_filter,
                   select_all>>

\* yamileth.py: the user changes the metric multiselect
SelectMetrics ==
    /\ script = "yamileth"
    /\ \E selected \in SUBSET MetricOptions :
         /\ selected # metric_filter
         /\ metric_filter' = selected
         /\ Land(yamileth_run(loaded, fte_filter, selected, select_all, slider))
    /\ held' = NoSlider
    /\ UNCHANGED <<script, loaded, overall_plot, practice_areas, fte_filter,
                   select_all>>

\* yamileth.py: the user ticks or unticks "Select All"
ToggleSelectAll ==
    /\ script = "yamileth"
    /\ select_all' = ~select_all
    /\ held' = IF select_all THEN NoSlider ELSE slider
    /\ Land(yamileth_run(loaded, fte_filter, metric_filter, ~select_all, slider))
    /\ UNCHANGED <<script, loaded, overall_plot, practice_areas, fte_filter,
                   metric_filter>>

\* yamileth.py: the user moves a thumb of the year-month slider
MoveYearMonthSlider ==
    /\ script = "yamileth"
    /\ slider # NoSlider
    /\ \E p \in Thumbs(Len(slider.options)) :
         /\ Moved(slider, p) # slider
         /\ Land(yamileth_run(loaded, fte_filter, metric_filter, select_all,
                              Moved(slider, p)))
    /\ UNCHANGED <<script, loaded, overall_plot, practice_areas, fte_filter,
                   metric_filter, select_all, held>>

Next ==
    \/ SelectPracticeAreas
    \/ MoveMonthSlider
    \/ SelectFtes
    \/ SelectMetrics
    \/ ToggleSelectAll
    \/ MoveYearMonthSlider

Spec == Init /\ [][Next]_vars

\* ------------------------------------------------ the range filter alone
\* The range filter as a function of the table it is given, the checkbox and
\* the pair the range control hands back, the pair being any two labels of
\* the month universe: the call from its arguments to its return or its
\* exception.  (Streamlit's own slider hands back two of its options, the
\* left thumb first; the sessions of Spec are the ones it produces.)
NotCalled == NoRange(<<>>, NoSlider, "not called", <<>>)

PaLabels == {MonthNames[m] : m \in PaMonths}

CallInit(table) ==
    /\ df = table
    /\ overall_plot = <<>>
    /\ practice_areas = {}
    /\ fte_filter = {}
    /\ metric_filter = {}
    /\ out = NotCalled
    /\ last_month_num = None
    /\ rendered = <<>>
    /\ raised = ""
    /\ held = NoSlider

CallInitApp ==
    /\ script = "app"
    /\ loaded \in Tables(PaRows, MaxRows) \cup {PaScenario}
    /\ select_all = FALSE
    /\ \E a \in PaLabels, b \in PaLabels :
          slider = [options |-> column(months_df_of(loaded), 2), value |-> <<a, b>>]
    /\ CallInit(loaded)

CallInitYamileth ==
    /\ script = "yamileth"
    /\ loaded \in Tables(FteRows, MaxRows) \cup {FteScenario}
    /\ select_all \in BOOLEAN
    /\ \E a \in FteYearMonths, b \in FteYearMonths :
          slider = [options |-> options_of(ym_df_of(loaded)), value |-> <<a, b>>]
    /\ CallInit(loaded)

\* app.py: month_range_filter(pa_plot)
CallMonthRangeFilter ==
    /\ script = "app"
    /\ out = NotCalled
    /\ out' = month_range_filter(df, slider)
    /\ raised' = out'.raised
    /\ UNCHANGED <<script, loaded, overall_plot, practice_areas, fte_filter,
                   metric_filter, select_all, slider, df, last_month_num, rendered,
                   held>>

\* yamileth.py: year_month_range_filter(fte_plot2, ...)
CallYearMonthRangeFilter ==
    /\ script = "yamileth"
    /\ out = NotCalled
    /\ out' = year_month_range_filter(df, select_all, slider)
    /\ raised' = out'.raised
    /\ UNCHANGED <<script, loaded, overall_plot, practice_areas, fte_filter,
                   metric_filter, select_all, slider, df, last_month_num, rendered,
                   held>>

CallNext == CallMonthRangeFilter \/ CallYearMonthRangeFilter

SpecCall == (CallInitApp \/ CallInitYamileth) /\ [][CallNext]_vars

\* ------------------------------------------------------------- properties
\* the chronological key of a row: (Month_#) in app.py, (Year, Month_#) in
\* yamileth.py
Key(r) == IF script = "app" THEN <<r.Month_num>> ELSE <<r.Year, r.Month_num>>

\* the position of a key on the month line: the lexicographic order on
\* (year, month number) is the order of these numbers
Chrono(k) == IF Len(k) = 1 THEN k[1] ELSE k[1] * Len(MonthNames) + k[2]

\* the last call of the range filter returned a range
RangeApplied == out.raised = "" /\ out.start_month_num # None

\* the resolved range of the last call
ResolvedStart ==
    IF script = "app"
    THEN <<out.start_month_num[1]>>
    ELSE <<out.start_year[1], out.start_month_num[1]>>
ResolvedEnd ==
    IF script = "app"
    THEN <<out.end_month_num[1]>>
    ELSE <<out.end_year[1], out.end_month_num[1]>>

InRange(k) ==
    Chrono(ResolvedStart) <= Chrono(k) /\ Chrono(k) <= Chrono(ResolvedEnd)

\* the index labels of the rows of a table
Labels(t) == {t[i].idx : i \in 1..Len(t)}

\* the rows of the loaded table that pass the dimension selection
PassesDimension(r) ==
    IF script = "app"
    THEN r.Practice_area \in practice_areas
    ELSE r.FTE \in fte_filter /\ r.Metric \in metric_filter

\* C1: range filtering is exact.  Whenever the filter returned a range
\* (s, e) with s <= e, every row of the returned table is a row of the table
\* it was given, and a row of the given table is returned if and only if its
\* key k satisfies s <= k <= e, both bounds included.
C1_RangeExact ==
    (RangeApplied /\ Chrono(ResolvedStart) <= Chrono(ResolvedEnd)) =>
        /\ \A i \in 1..Len(out.filtered_df) :
              \E j \in 1..Len(df) : df[j] = out.filtered_df[i]
        /\ \A j \in 1..Len(df) :
              (df[j].idx \in Labels(out.filtered_df)) <=> InRange(Key(df[j]))

\* C1 witness: the multi-year scenario.  Nov 2023, Dec 2023 and Jan 2024 are
\* on offer, Dec 2023 to Jan 2024 is selected, and the Nov 2023 row is left out
\* while the rows of the two other months are returned.
C1_Witness ==
    /\ script = "yamileth"
    /\ ~select_all
    /\ RangeApplied
    /\ Len(out.options) = Cardinality(FteYearMonths)
    /\ ResolvedStart = <<2023, 12>>
    /\ ResolvedEnd = <<2024, 1>>
    /\ Len(out.filtered_df) = Len(df) - 1
    /\ Len(out.filtered_df) >= 2

\* C2: Select All overrides the range.  Whenever "Select All" is ticked and
\* the option list is not empty, the range returned is (first option, last
\* option), whatever the slider held when the box was ticked.
C2_SelectAllOverride ==
    (script = "yamileth" /\ select_all /\ out.options # <<>>) =>
        /\ out.raised = ""
        /\ out.start_month_num # None
        /\ ResolvedStart = out.options[1]
        /\ ResolvedEnd = out.options[Len(out.options)]

\* C2 witness: the box was ticked while the slider held a range that was
\* neither (first, last) nor anything of the kind, and the range returned is
\* (first, last).
C2_Witness ==
    /\ script = "yamileth"
    /\ select_all
    /\ Len(out.options) >= 2
    /\ held # NoSlider
    /\ held.options = out.options
    /\ held.value[1] # out.options[1]
    /\ held.value[2] = held.value[1]
    /\ ResolvedStart = out.options[1]
    /\ ResolvedEnd = out.options[Len(out.options)]

\* C3: Select All disables the slider without clearing it.  If the slider
\* holds (s, e) when the box is ticked, then when the box is unticked again
\* (nothing else changed in between) the slider holds (s, e) and the table is
\* filtered by (s, e).
C3_SelectAllKeepsRange ==
    [][(script = "yamileth" /\ select_all /\ ~select_all' /\ held # NoSlider) =>
          /\ slider' = held
          /\ out'.filtered_df = loc(df', ym_mask(df', held.value[1], held.value[2]))
      ]_vars

\* C4: no options available.  Whenever the table handed to the range filter
\* has no row, the filter raises nothing, returns that table with the same
\* rows, returns None for every boundary label, and the page shows no
\* "Showing data from ... to ..." line.
C4_NoOptionsPassThrough ==
    (df = <<>>) =>
        /\ out.raised = ""
        /\ out.options = <<>>
        /\ out.filtered_df = df
        /\ out.start_year = None /\ out.start_month_name = None
        /\ out.start_month_num = None
        /\ out.end_year = None /\ out.end_month_name = None
        /\ out.end_month_num = None
        /\ \A i \in 1..Len(rendered) : rendered[i] # "range"

\* C4 witness: the loaded table has rows and the dimension selection removed
\* all of them; the execution went on past the filter.
C4_Witness ==
    /\ loaded # <<>>
    /\ df = <<>>
    /\ out.warning
    /\ rendered # <<>>

\* C6: a missing metric is omitted.  Whenever an execution of app.py gets
\* past the range filter and the overall table has a row for the last month,
\* the execution is not aborted: every summary metric that has a row for the
\* last month is drawn, and the charts (or their warnings) after them are
\* drawn.
C6_MissingMetricOmitted ==
    (/\ script = "app"
     /\ out.raised = ""
     /\ \E i \in 1..Len(overall_plot) : Some(overall_plot[i].Month_num) = last_month_num)
    =>
        /\ raised = ""
        /\ \A i \in 1..Len(overall_plot) :
              Some(overall_plot[i].Month_num) = last_month_num =>
                  \E j \in 1..Len(rendered) : rendered[j] = overall_plot[i].Metric
        /\ \E j \in 1..Len(rendered) : rendered[j] \in {"line_chart", "warning"}

\* C8: the options follow the dimension filter.  Whenever the range filter
\* returned, the keys of its option list are exactly the keys of the rows of
\* the loaded table that pass the dimension selection, and the list is in
\* strictly ascending key order.
C8_OptionsFollowDimension ==
    (out.raised = "") =>
        /\ {out.options[i] : i \in 1..Len(out.options)}
             = {Key(loaded[j]) : j \in {n \in 1..Len(loaded) : PassesDimension(loaded[n])}}
        /\ \A i \in 1..(Len(out.options) - 1) :
              Chrono(out.options[i]) < Chrono(out.options[i + 1])

\* C8 witness: a key of the loaded table occurs only in rows the dimension
\* selection removed, other rows pass, and that key is not on offer.
C8_Witness ==
    /\ out.raised = ""
    /\ out.options # <<>>
    /\ \E j \in 1..Len(loaded) :
          /\ ~PassesDimension(loaded[j])
          /\ \A i \in 1..Len(out.options) : out.options[i] # Key(loaded[j])

\* the smallest and the largest key of a table with rows
MinKey(t) ==
    Key(t[CHOOSE i \in 1..Len(t) :
              \A j \in 1..Len(t) : Chrono(Key(t[i])) <= Chrono(Key(t[j]))])
MaxKey(t) ==
    Key(t[CHOOSE i \in 1..Len(t) :
              \A j \in 1..Len(t) : Chrono(Key(t[j])) <= Chrono(Key(t[i]))])

\* C9: Select All is the full range.  Whenever "Select All" is ticked and the
\* table handed to the filter has rows, the table returned is the table the
\* filter returns for the same input with the box unticked and the slider at
\* (minimum key, maximum key): the same rows in the same order.
C9_SelectAllIsFullRange ==
    (script = "yamileth" /\ select_all /\ df # <<>>) =>
        out.filtered_df =
            year_month_range_filter(
                df, FALSE,
                [options |-> out.options, value |-> <<MinKey(df), MaxKey(df)>>]
            ).filtered_df

\* C9 witness: the box is ticked and the returned table has rows of two
\* different months.
C9_Witness ==
    /\ script = "yamileth"
    /\ select_all
    /\ Len(out.filtered_df) >= 2
    /\ MinKey(df) # MaxKey(df)

\* the range filter applied once more, to the table t, with the range of the
\* last call
FilteredAgain(t) ==
    IF script = "app"
    THEN loc(t, month_mask(t, out.start_month_num[1], out.end_month_num[1]))
    ELSE loc(t, ym_mask(t, ResolvedStart, ResolvedEnd))

\* the place of the row with index label x in the table t
Place(t, x) == CHOOSE i \in 1..Len(t) : t[i].idx = x

\* C10: range filtering is idempotent and keeps the order.  Whenever the
\* filter returned a range, filtering the returned table by the same range
\* returns the same table, and the rows of the returned table are in the
\* relative order they have in the table the filter was given.
C10_IdempotentStable ==
    RangeApplied =>
        /\ FilteredAgain(out.filtered_df) = out.filtered_df
        /\ \A i \in 1..Len(out.filtered_df) :
              out.filtered_df[i].idx \in Labels(df)
        /\ \A i, j \in 1..Len(out.filtered_df) :
              i < j => Place(df, out.filtered_df[i].idx) < Place(df, out.filtered_df[j].idx)

\* C10 witness: a proper sub-range is selected, a row is left out, and the
\* two rows returned stand in the given table with the later month first.
C10_Witness ==
    /\ RangeApplied
    /\ ~select_all
    /\ Len(out.filtered_df) >= 2
    /\ Len(out.filtered_df) < Len(df)
    /\ Chrono(Key(out.filtered_df[1])) > Chrono(Key(out.filtered_df[2]))

\* the key a label of the range control stands for: the month number of a
\* month name in app.py, the (Year, Month_#) pair itself in yamileth.py
Requested(i) ==
    IF script = "app"
    THEN <<CHOOSE m \in 1..Len(MonthNames) : MonthNames[m] = slider.value[i]>>
    ELSE slider.value[i]

Offered == {out.options[i] : i \in 1..Len(out.options)}

Called == out.raised # "not called"

====
